---- MODULE Spec2Model ----
(***************************************************************************)
(* Model of citationChecker.py: the CitationChecker knowledge-base build   *)
(* (_load_verified_citations, _load_suspicious_citations), the regex       *)
(* extractor (extract_citations), the verifier (verify_citation,           *)
(* _get_status) and the orchestrator (check_text).                         *)
(*                                                                         *)
(* A Python str is a sequence of characters; a character is a one-letter   *)
(* string.  The code point U+2705 (the approval glyph) cannot be written   *)
(* in a module and is the character "CHECKMARK".  The status strings are   *)
(* the source's without their leading glyph.                               *)
(***************************************************************************)
EXTENDS Integers, Sequences, FiniteSets, TLC

(***************************************************************************)
(* Characters and the character classes of Python's re module.             *)
(***************************************************************************)
UpperLetters ==
    <<"A","B","C","D","E","F","G","H","I","J","K","L","M",
      "N","O","P","Q","R","S","T","U","V","W","X","Y","Z">>

LowerLetters ==
    <<"a","b","c","d","e","f","g","h","i","j","k","l","m",
      "n","o","p","q","r","s","t","u","v","w","x","y","z">>

Range(s) == { s[i] : i \in DOMAIN s }

UpperSet == Range(UpperLetters)

LowerSet == Range(LowerLetters)

DigitSet == {"0","1","2","3","4","5","6","7","8","9"}

SpaceSet == {" ", "\t", "\n", "\r", "\f"}

CheckGlyph == "CHECKMARK"

\* \w
IsWord(c) == c \in UpperSet \cup LowerSet \cup DigitSet \cup {"_"}

LowerOf == [ c \in UpperSet |-> LowerLetters[CHOOSE i \in DOMAIN UpperLetters : UpperLetters[i] = c] ]

UpperOf == [ c \in LowerSet |-> UpperLetters[CHOOSE i \in DOMAIN LowerLetters : LowerLetters[i] = c] ]

\* str.lower()
Lower(s) == [ i \in DOMAIN s |-> IF s[i] \in UpperSet THEN LowerOf[s[i]] ELSE s[i] ]

\* str.upper()
Upper(s) == [ i \in DOMAIN s |-> IF s[i] \in LowerSet THEN UpperOf[s[i]] ELSE s[i] ]

\* sub occurs in s at position i
OccursAt(sub, s, i) ==
    /\ i + Len(sub) - 1 <= Len(s)
    /\ \A j \in 1..Len(sub) : s[i + j - 1] = sub[j]

\* Python's `sub in s` on strings
Contains(sub, s) == \E i \in 1..(Len(s) + 1) : OccursAt(sub, s, i)

(***************************************************************************)
(* Regular expressions.  A pattern is the sequence of the elements of its  *)
(* source string: "b" is \b, "lit" a literal character, "opt" an optional  *)
(* literal (x?), "one" one character of a class, "onemaybe" an optional    *)
(* one ([a-z]?), "plus" and "star" a greedy repetition of a class, "open"  *)
(* and "close" the parentheses of capture group g.  In the patterns of     *)
(* this program every optional or repeated element is followed by an       *)
(* element that no character of it can match, so that the greedy match is  *)
(* the only match at a position and the matcher never has to backtrack.    *)
(***************************************************************************)
InClass(cls, c) ==
    CASE cls = "upper" -> c \in UpperSet
      [] cls = "lower" -> c \in LowerSet
      [] cls = "digit" -> c \in DigitSet
      [] cls = "space" -> c \in SpaceSet

Char(t, i) == IF i >= 1 /\ i <= Len(t) THEN t[i] ELSE "EOF"

\* the position after the longest run of class cls that starts at i
RECURSIVE SkipClass(_, _, _)
SkipClass(cls, t, i) ==
    IF InClass(cls, Char(t, i)) THEN SkipClass(cls, t, i + 1) ELSE i

\* \b at i: exactly one of the characters before and at i is a word character
WordBoundary(t, i) == IsWord(Char(t, i - 1)) # IsWord(Char(t, i))

\* the position after element e matched at i, 0 when it does not match there
Step(e, t, i) ==
    CASE e.k = "b"        -> IF WordBoundary(t, i) THEN i ELSE 0
      [] e.k = "lit"      -> IF Char(t, i) = e.c THEN i + 1 ELSE 0
      [] e.k = "opt"      -> IF Char(t, i) = e.c THEN i + 1 ELSE i
      [] e.k = "one"      -> IF InClass(e.cls, Char(t, i)) THEN i + 1 ELSE 0
      [] e.k = "onemaybe" -> IF InClass(e.cls, Char(t, i)) THEN i + 1 ELSE i
      [] e.k = "plus"     -> IF InClass(e.cls, Char(t, i))
                             THEN SkipClass(e.cls, t, i + 1) ELSE 0
      [] e.k = "star"     -> SkipClass(e.cls, t, i)
      [] e.k \in {"open", "close"} -> i

\* the capture positions after element e was passed at i
Capture(caps, e, i) ==
    IF e.k = "open" THEN [caps EXCEPT !.from[e.g] = i]
    ELSE IF e.k = "close" THEN [caps EXCEPT !.to[e.g] = i]
    ELSE caps

NoMatch == [ok |-> FALSE]

\* the elements pat[k..] matched at i, after a match of pat[1..k-1] from position start
RECURSIVE MatchFrom(_, _, _, _, _, _)
MatchFrom(pat, k, t, start, i, caps) ==
    IF k > Len(pat)
    THEN [ok |-> TRUE, start |-> start, end |-> i,
          group |-> [g \in DOMAIN caps.from |-> SubSeq(t, caps.from[g], caps.to[g] - 1)]]
    ELSE LET next == Step(pat[k], t, i)
         IN  IF next = 0 THEN NoMatch
             ELSE MatchFrom(pat, k + 1, t, start, next, Capture(caps, pat[k], i))

\* re.match(pat, t, pos = i - 1) for a pattern of n groups
MatchAt(pat, n, t, i) ==
    MatchFrom(pat, 1, t, i, i, [from |-> [g \in 1..n |-> 0], to |-> [g \in 1..n |-> 0]])

B == [k |-> "b"]

L(c) == [k |-> "lit", c |-> c]

Opt(c) == [k |-> "opt", c |-> c]

One(cls) == [k |-> "one", cls |-> cls]

OneMaybe(cls) == [k |-> "onemaybe", cls |-> cls]

Plus(cls) == [k |-> "plus", cls |-> cls]

Star(cls) == [k |-> "star", cls |-> cls]

Open(g) == [k |-> "open", g |-> g]

Close(g) == [k |-> "close", g |-> g]

\* ([A-Z][a-z]+)
AuthorGroup == <<Open(1), One("upper"), Plus("lower"), Close(1)>>

\* (\d{4}[a-z]?)\)
YearGroupParen ==
    <<Open(2), One("digit"), One("digit"), One("digit"), One("digit"),
      OneMaybe("lower"), Close(2), L(")")>>

\* \s+et\s+al\.?
EtAl == <<Plus("space"), L("e"), L("t"), Plus("space"), L("a"), L("l"), Opt(".")>>

\* self.citation_patterns
citation_patterns ==
    << \* r'\b([A-Z][a-z]+)\s+et\s+al\.?\s*\((\d{4}[a-z]?)\)'
       <<B>> \o AuthorGroup \o EtAl \o <<Star("space"), L("(")>> \o YearGroupParen,
       \* r'\b([A-Z][a-z]+)\s+&\s+[A-Z][a-z]+\s*\((\d{4}[a-z]?)\)'
       <<B>> \o AuthorGroup
           \o <<Plus("space"), L("&"), Plus("space"), One("upper"), Plus("lower"),
                Star("space"), L("(")>>
           \o YearGroupParen,
       \* r'\b([A-Z][a-z]+)\s*\((\d{4}[a-z]?)\)'
       <<B>> \o AuthorGroup \o <<Star("space"), L("(")>> \o YearGroupParen,
       \* r'\(([A-Z][a-z]+)\s+et\s+al\.?,\s*(\d{4}[a-z]?)\)'
       <<L("(")>> \o AuthorGroup \o EtAl \o <<L(","), Star("space")>> \o YearGroupParen,
       \* r'\(([A-Z][a-z]+),\s*(\d{4}[a-z]?)\)'
       <<L("(")>> \o AuthorGroup \o <<L(","), Star("space")>> \o YearGroupParen >>

\* arxiv_pattern = r'arXiv:(\d+\.\d+)'
arxiv_pattern ==
    <<L("a"), L("r"), L("X"), L("i"), L("v"), L(":"),
      Open(1), Plus("digit"), L("."), Plus("digit"), Close(1)>>

\* the leftmost position at or after pos at which the pattern matches, 0 when none
FirstMatchFrom(pat, n, t, pos) ==
    LET hits == { i \in pos..Len(t) : MatchAt(pat, n, t, i).ok }
    IN  IF hits = {} THEN 0 ELSE CHOOSE i \in hits : \A j \in hits : i <= j

\* re.finditer(pat, t) from position pos: the leftmost match at or after pos, then
\* the scan goes on from its end (no pattern here matches the empty string)
RECURSIVE FindIterFrom(_, _, _, _)
FindIterFrom(pat, n, t, pos) ==
    LET first == FirstMatchFrom(pat, n, t, pos)
    IN  IF first = 0 THEN <<>>
        ELSE LET m == MatchAt(pat, n, t, first)
             IN  <<m>> \o FindIterFrom(pat, n, t, m.end)

\* re.finditer(pat, t)
FindIter(pat, n, t) == FindIterFrom(pat, n, t, 1)

\* match.group(1), match.group(2) of a citation pattern
AuthorOf(m) == m.group[1]

YearOf(m) == m.group[2]

\* for pattern in self.citation_patterns: for match in re.finditer(pattern, t)
RECURSIVE AllMatchesFrom(_, _)
AllMatchesFrom(p, t) ==
    IF p > Len(citation_patterns) THEN <<>>
    ELSE FindIter(citation_patterns[p], 2, t) \o AllMatchesFrom(p + 1, t)

AllMatches(t) == AllMatchesFrom(1, t)

(***************************************************************************)
(* Strings of the model, character by character.                           *)
(***************************************************************************)
\* 'Smith'
Smith ==
    <<"S","m","i","t","h">>

\* 'Lee'
Lee ==
    <<"L","e","e">>

\* 'Kim'
Kim ==
    <<"K","i","m">>

\* 'Jones'
Jones ==
    <<"J","o","n","e","s">>

\* 'Wilson'
Wilson ==
    <<"W","i","l","s","o","n">>

\* 'Chen'
Chen ==
    <<"C","h","e","n">>

\* 'Richardson'
Richardson ==
    <<"R","i","c","h","a","r","d","s","o","n">>

\* '2024'
Y2024 ==
    <<"2","0","2","4">>

\* '2021'
Y2021 ==
    <<"2","0","2","1">>

\* '2023'
Y2023 ==
    <<"2","0","2","3">>

\* '2023a'
Y2023a ==
    <<"2","0","2","3","a">>

\* '2022'
Y2022 ==
    <<"2","0","2","2">>

\* 'Smith et al. (2024)'
CorrectionSmith ==
    <<"S","m","i","t","h"," ","e","t"," ","a","l","."," ","(","2","0","2","4",
      ")">>

\* '(Lee, 2021)'
CorrectionLee ==
    <<"(","L","e","e",","," ","2","0","2","1",")">>

\* 'Status: U+2705 VERIFIED Lee (2021)'
ReviewAccepted ==
    <<"S","t","a","t","u","s",":"," ","CHECKMARK"," ","V","E","R","I","F","I",
      "E","D"," ","L","e","e"," ","(","2","0","2","1",")">>

\* 'U+2705 Paper verified (Lee, 2021)'
ReviewAcceptedMixedCase ==
    <<"CHECKMARK"," ","P","a","p","e","r"," ","v","e","r","i","f","i","e","d",
      " ","(","L","e","e",","," ","2","0","2","1",")">>

\* 'U+2705 Lee (2021)'
ReviewGlyphOnly ==
    <<"CHECKMARK"," ","L","e","e"," ","(","2","0","2","1",")">>

\* 'Verified Lee (2021)'
ReviewWordOnly ==
    <<"V","e","r","i","f","i","e","d"," ","L","e","e"," ","(","2","0","2","1",
      ")">>

\* 'Lee et al. (2021)'
LineLeeEtAl ==
    <<"L","e","e"," ","e","t"," ","a","l","."," ","(","2","0","2","1",")">>

\* '(Lee, 2021)'
LineLeeParen ==
    <<"(","L","e","e",","," ","2","0","2","1",")">>

\* 'Lee et al (2021) arXiv:2401.12345'
FabricatedList ==
    <<"L","e","e"," ","e","t"," ","a","l"," ","(","2","0","2","1",")"," ","a",
      "r","X","i","v",":","2","4","0","1",".","1","2","3","4","5">>

\* 'arXiv:2401.12345'
ArxivKey ==
    <<"a","r","X","i","v",":","2","4","0","1",".","1","2","3","4","5">>

\* 'Smith (2024)'
FragBare ==
    <<"S","m","i","t","h"," ","(","2","0","2","4",")">>

\* 'Smith et al. (2024)'
FragEtAl ==
    <<"S","m","i","t","h"," ","e","t"," ","a","l","."," ","(","2","0","2","4",
      ")">>

\* '(Smith et al., 2024)'
FragParenEtAl ==
    <<"(","S","m","i","t","h"," ","e","t"," ","a","l",".",","," ","2","0","2",
      "4",")">>

\* '(Lee, 2021)'
FragParen ==
    <<"(","L","e","e",","," ","2","0","2","1",")">>

\* 'Lee & Kim (2021)'
FragTwoAuthors ==
    <<"L","e","e"," ","&"," ","K","i","m"," ","(","2","0","2","1",")">>

\* 'Jones et  al (2023a)'
FragWideEtAl ==
    <<"J","o","n","e","s"," ","e","t"," "," ","a","l"," ","(","2","0","2","3",
      "a",")">>

\* 'see'
FragWord ==
    <<"s","e","e">>

\* 'According to Richardson et al. (2023), Earth has crossed 6 of 9 planetary boundaries.'
TextValidFormat ==
    <<"A","c","c","o","r","d","i","n","g"," ","t","o"," ","R","i","c","h","a",
      "r","d","s","o","n"," ","e","t"," ","a","l","."," ","(","2","0","2","3",
      ")",","," ","E","a","r","t","h"," ","h","a","s"," ","c","r","o","s","s",
      "e","d"," ","6"," ","o","f"," ","9"," ","p","l","a","n","e","t","a","r",
      "y"," ","b","o","u","n","d","a","r","i","e","s",".">>

\* '\n        Smith (2024) found significant results.\n        This was confirmed by Jones et al. (2023).\n        Earlier work (Wilson & Chen, 2022) suggested similar findings.\n        '
TextMultipleFormats ==
    <<"\n"," "," "," "," "," "," "," "," ","S","m","i","t","h"," ","(","2",
      "0","2","4",")"," ","f","o","u","n","d"," ","s","i","g","n","i","f","i",
      "c","a","n","t"," ","r","e","s","u","l","t","s",".","\n"," "," "," ",
      " "," "," "," "," ","T","h","i","s"," ","w","a","s"," ","c","o","n","f",
      "i","r","m","e","d"," ","b","y"," ","J","o","n","e","s"," ","e","t"," ",
      "a","l","."," ","(","2","0","2","3",")",".","\n"," "," "," "," "," ",
      " "," "," ","E","a","r","l","i","e","r"," ","w","o","r","k"," ","(","W",
      "i","l","s","o","n"," ","&"," ","C","h","e","n",","," ","2","0","2","2",
      ")"," ","s","u","g","g","e","s","t","e","d"," ","s","i","m","i","l","a",
      "r"," ","f","i","n","d","i","n","g","s",".","\n"," "," "," "," "," ",
      " "," "," ">>

\* 'This is just regular text without any academic references.'
TextNoCitations ==
    <<"T","h","i","s"," ","i","s"," ","j","u","s","t"," ","r","e","g","u","l",
      "a","r"," ","t","e","x","t"," ","w","i","t","h","o","u","t"," ","a","n",
      "y"," ","a","c","a","d","e","m","i","c"," ","r","e","f","e","r","e","n",
      "c","e","s",".">>


\* re.finditer(arxiv_pattern, t)
FindArxiv(t) == FindIter(arxiv_pattern, 1, t)

(***************************************************************************)
(* Normalized keys.                                                        *)
(***************************************************************************)
\* f"{author} et al. ({year})"
EtAlKey(author, year) ==
    author \o <<" ","e","t"," ","a","l","."," ","(">> \o year \o <<")">>

\* f"{author} ({year})"
PlainKey(author, year) == author \o <<" ","(">> \o year \o <<")">>

\* f"arXiv:{arxiv_id}"
ArxivKeyOf(id) == <<"a","r","X","i","v",":">> \o id

(***************************************************************************)
(* Knowledge-base build.  A file is [tier, exists, readable, content]:     *)
(* open() or read() raises when it is not readable.                        *)
(***************************************************************************)
\* a build that registers the "et al." form alone
BothFormsOnlyEtAl(ms) == { EtAlKey(AuthorOf(ms[i]), YearOf(ms[i])) : i \in DOMAIN ms }

\* citations.add(f"{author} et al. ({year})"); citations.add(f"{author} ({year})")
BothForms(ms) ==
    UNION { {EtAlKey(AuthorOf(ms[i]), YearOf(ms[i])), PlainKey(AuthorOf(ms[i]), YearOf(ms[i]))} :
            i \in DOMAIN ms }

\* _extract_citations_from_file
ExtractCitationsFromFile(f) ==
    IF ~f.readable THEN {} ELSE BothForms(AllMatches(f.content))

\* a review skipped only when it lacks both markers
ReviewSkippedBothMissing(content) ==
    /\ ~Contains(<<CheckGlyph>>, content)
    /\ ~Contains(<<"V","E","R","I","F","I","E","D">>, Upper(content))

\* U+2705 not in content or 'VERIFIED' not in content.upper()
ReviewSkipped(content) ==
    \/ ~Contains(<<CheckGlyph>>, content)
    \/ ~Contains(<<"V","E","R","I","F","I","E","D">>, Upper(content))

\* _extract_verified_from_review
ExtractVerifiedFromReview(f) ==
    IF ~f.readable THEN {}
    ELSE IF ReviewSkipped(f.content) THEN {}
    ELSE BothForms(AllMatches(f.content))

EmptyDict == [k \in {} |-> "None"]

\* d[key] = value
Put(d, key, value) ==
    [k \in DOMAIN d \cup {key} |-> IF k = key THEN value ELSE d[k]]

\* dict.get(key, default)
Get(d, key, default) == IF key \in DOMAIN d THEN d[key] ELSE default

UnknownReason == "Unknown reason"

FabricatedReason == "FABRICATED - See COMMONLY_HALLUCINATED_CITATIONS.md"

FabricatedArxivReason == "FABRICATED arXiv ID (404)"

\* the two assignments of one match, for the matches ms[k..] in order
RECURSIVE InsertMatches(_, _, _, _)
InsertMatches(susp, ms, k, reason) ==
    IF k > Len(ms) THEN susp
    ELSE InsertMatches(
             Put(Put(susp, EtAlKey(AuthorOf(ms[k]), YearOf(ms[k])), reason),
                 PlainKey(AuthorOf(ms[k]), YearOf(ms[k])), reason),
             ms, k + 1, reason)

\* suspicious[f"arXiv:{arxiv_id}"] = 'FABRICATED arXiv ID (404)', for ms[k..]
RECURSIVE InsertArxiv(_, _, _)
InsertArxiv(susp, ms, k) ==
    IF k > Len(ms) THEN susp
    ELSE InsertArxiv(Put(susp, ArxivKeyOf(ms[k].group[1]), FabricatedArxivReason), ms, k + 1)

(***************************************************************************)
(* The suspicious list is [exists, parses, data]; data maps "high" and     *)
(* "medium" (either may be missing) to a list of items; an item is         *)
(* [type |-> "object", val |-> a dict with optional "line" and "reason"]   *)
(* or a JSON value of another type, on which item.get raises.  The         *)
(* exception leaves the loop with what was inserted before it.             *)
(***************************************************************************)
RECURSIVE ProcessItems(_, _, _)
ProcessItems(susp, items, k) ==
    IF k > Len(items) THEN susp
    ELSE IF items[k].type # "object" THEN susp
    ELSE ProcessItems(
             InsertMatches(susp, AllMatches(Get(items[k].val, "line", <<>>)), 1,
                           Get(items[k].val, "reason", UnknownReason)),
             items, k + 1)

\* Source 1 of _load_suspicious_citations
LoadSuspiciousJson(susp, jf) ==
    IF ~jf.exists THEN susp
    ELSE IF ~jf.parses THEN susp
    ELSE ProcessItems(susp, Get(jf.data, "high", <<>>) \o Get(jf.data, "medium", <<>>), 1)

\* Source 2 of _load_suspicious_citations
LoadSuspiciousFabricated(susp, f) ==
    IF ~f.exists THEN susp
    ELSE IF ~f.readable THEN susp
    ELSE InsertArxiv(InsertMatches(susp, AllMatches(f.content), 1, FabricatedReason),
                     FindArxiv(f.content), 1)

(***************************************************************************)
(* Extractor, verifier, orchestrator.                                      *)
(***************************************************************************)
\* 'et al' in citation_text.lower()
HasEtAl(citation_text) == Contains(<<"e","t"," ","a","l">>, Lower(citation_text))

\* a normalization to the "et al." form whatever the matched text
NormalizeAlwaysEtAl(citation_text, author, year) == EtAlKey(author, year)

\* the normalization of extract_citations
Normalize(citation_text, author, year) ==
    IF HasEtAl(citation_text) THEN EtAlKey(author, year) ELSE PlainKey(author, year)

\* an extractor that appends every match, seen or not
RECURSIVE ExtractFromNoDedup(_, _, _, _, _)
ExtractFromNoDedup(text, ms, k, seen, citations) ==
    IF k > Len(ms) THEN citations
    ELSE ExtractFromNoDedup(text, ms, k + 1, seen,
             Append(citations,
                    [text |-> SubSeq(text, ms[k].start, ms[k].end - 1),
                     normalized |-> Normalize(SubSeq(text, ms[k].start, ms[k].end - 1),
                                              AuthorOf(ms[k]), YearOf(ms[k])),
                     author |-> AuthorOf(ms[k]), year |-> YearOf(ms[k])]))

\* the loop body of extract_citations over the matches ms[k..]
RECURSIVE ExtractFrom(_, _, _, _, _)
ExtractFrom(text, ms, k, seen, citations) ==
    IF k > Len(ms) THEN citations
    ELSE LET citation_text == SubSeq(text, ms[k].start, ms[k].end - 1)
             normalized    == Normalize(citation_text, AuthorOf(ms[k]), YearOf(ms[k]))
         IN  IF normalized \notin seen
             THEN ExtractFrom(text, ms, k + 1, seen \cup {normalized},
                      Append(citations,
                             [text |-> citation_text, normalized |-> normalized,
                              author |-> AuthorOf(ms[k]), year |-> YearOf(ms[k])]))
             ELSE ExtractFrom(text, ms, k + 1, seen, citations)

\* extract_citations
extract_citations(text) == ExtractFrom(text, AllMatches(text), 1, {}, <<>>)

\* a status that reports a verified citation VERIFIED, flagged or not
get_status_IgnoresFlag(verified, suspicious) ==
    IF verified THEN "VERIFIED"
    ELSE IF suspicious THEN "SUSPICIOUS"
    ELSE "UNVERIFIED"

\* _get_status
get_status(verified, suspicious) ==
    IF verified /\ ~suspicious THEN "VERIFIED"
    ELSE IF verified /\ suspicious THEN "VERIFIED BUT FLAGGED"
    ELSE IF suspicious THEN "SUSPICIOUS"
    ELSE "UNVERIFIED"

\* verify_citation
verify_citation(citation, V, S) ==
    [citation          |-> citation,
     verified          |-> citation \in V,
     suspicious        |-> citation \in DOMAIN S,
     suspicious_reason |-> Get(S, citation, "None"),
     status            |-> get_status(citation \in V, citation \in DOMAIN S)]

\* the first loop of check_text
Verifications(citations, V, S) ==
    [i \in DOMAIN citations |->
        LET v == verify_citation(citations[i].normalized, V, S)
        IN  [citation          |-> v.citation,
             verified          |-> v.verified,
             suspicious        |-> v.suspicious,
             suspicious_reason |-> v.suspicious_reason,
             status            |-> v.status,
             original_text     |-> citations[i].text,
             author            |-> citations[i].author,
             year              |-> citations[i].year]]

\* sum(1 for r in results if ...)
Count(results, P) == Cardinality({ i \in DOMAIN results : P[i] })

\* a summary whose unverified count is the count of the results not verified
SummaryUnverifiedNotVerified(results) ==
    LET IsVerified   == [i \in DOMAIN results |-> results[i].verified]
        IsSuspicious == [i \in DOMAIN results |-> results[i].suspicious]
        IsUnverified == [i \in DOMAIN results |-> ~results[i].verified]
        unverified_count == Count(results, IsUnverified)
        suspicious_count == Count(results, IsSuspicious)
    IN  [citations_found |-> Len(results),
         verified        |-> Count(results, IsVerified),
         suspicious      |-> suspicious_count,
         unverified      |-> unverified_count,
         results         |-> results,
         all_verified    |-> unverified_count = 0 /\ suspicious_count = 0]

\* a summary whose all_verified looks at the unverified count alone
SummaryAllClearIgnoresSuspicious(results) ==
    LET IsVerified   == [i \in DOMAIN results |-> results[i].verified]
        IsSuspicious == [i \in DOMAIN results |-> results[i].suspicious]
        IsUnverified == [i \in DOMAIN results |-> ~results[i].verified /\ ~results[i].suspicious]
        unverified_count == Count(results, IsUnverified)
    IN  [citations_found |-> Len(results),
         verified        |-> Count(results, IsVerified),
         suspicious      |-> Count(results, IsSuspicious),
         unverified      |-> unverified_count,
         results         |-> results,
         all_verified    |-> unverified_count = 0]

\* the summary of check_text
Summary(results) ==
    LET IsVerified   == [i \in DOMAIN results |-> results[i].verified]
        IsSuspicious == [i \in DOMAIN results |-> results[i].suspicious]
        IsUnverified == [i \in DOMAIN results |-> ~results[i].verified /\ ~results[i].suspicious]
        unverified_count == Count(results, IsUnverified)
        suspicious_count == Count(results, IsSuspicious)
    IN  [citations_found |-> Len(results),
         verified        |-> Count(results, IsVerified),
         suspicious      |-> suspicious_count,
         unverified      |-> unverified_count,
         results         |-> results,
         all_verified    |-> unverified_count = 0 /\ suspicious_count = 0]

\* check_text, given the list extract_citations returned
check_text(citations, V, S) == Summary(Verifications(citations, V, S))

(***************************************************************************)
(* Inputs: the files the build may find and the texts a caller may check.  *)
(***************************************************************************)
MaxItems == 2

MaxFrags == 2

SeqsUpTo(S, n) == UNION { [1..k -> S] : k \in 0..n }

RECURSIVE Flatten(_)
Flatten(ss) == IF ss = <<>> THEN <<>> ELSE Head(ss) \o Flatten(Tail(ss))

TextFile(tier, content) ==
    [tier |-> tier, exists |-> TRUE, readable |-> TRUE, content |-> content]

UnreadableFile(tier) ==
    [tier |-> tier, exists |-> TRUE, readable |-> FALSE, content |-> <<>>]

MissingFile(tier) ==
    [tier |-> tier, exists |-> FALSE, readable |-> FALSE, content |-> <<>>]

TrustedFiles(tier) ==
    {UnreadableFile(tier), TextFile(tier, CorrectionSmith), TextFile(tier, CorrectionLee)}

ReviewFiles ==
    {UnreadableFile("review")} \cup
    { TextFile("review", c) :
        c \in {ReviewAccepted, ReviewAcceptedMixedCase, ReviewGlyphOnly, ReviewWordOnly} }

ItemLeeRetracted ==
    [type |-> "object", val |-> [line |-> LineLeeEtAl, reason |-> "retracted"]]

ItemLeeNoReason == [type |-> "object", val |-> [line |-> LineLeeParen]]

ItemNotObject == [type |-> "string", val |-> "oops"]

Items == {ItemLeeRetracted, ItemLeeNoReason, ItemNotObject}

Buckets == SeqsUpTo(Items, MaxItems)

MissingJson == [exists |-> FALSE, parses |-> FALSE, data |-> EmptyDict]

UnparsableJson == [exists |-> TRUE, parses |-> FALSE, data |-> EmptyDict]

JsonFiles ==
    {MissingJson, UnparsableJson}
    \cup { [exists |-> TRUE, parses |-> TRUE, data |-> [high |-> h, medium |-> m]] :
           h \in Buckets, m \in Buckets }
    \cup { [exists |-> TRUE, parses |-> TRUE, data |-> [medium |-> m]] : m \in Buckets }

FabricatedFiles ==
    {MissingFile("fabricated"), UnreadableFile("fabricated"),
     TextFile("fabricated", FabricatedList)}

Fragments ==
    {FragBare, FragEtAl, FragParenEtAl, FragParen, FragTwoAuthors, FragWideEtAl,
     FragWord}

Texts ==
    { Flatten(fs) : fs \in SeqsUpTo(Fragments, MaxFrags) }
    \cup {TextValidFormat, TextMultipleFormats, TextNoCitations}

Authors == {Smith, Lee, Kim, Jones, Wilson, Chen, Richardson}

Years == {Y2024, Y2021, Y2023, Y2023a, Y2022}

ProbeKeys ==
    { EtAlKey(a, Y2021) : a \in {Lee, Kim} } \cup { PlainKey(a, Y2021) : a \in {Lee, Kim} }
    \cup {EtAlKey(Smith, Y2024), PlainKey(Smith, Y2024), Lower(PlainKey(Smith, Y2024)),
          FragParen, ArxivKey}

(***************************************************************************)
(* State.  pc is the statement __init__ has reached ("ready" once the      *)
(* checker is constructed, "done" once main's one call on it returned);   *)
(* verified, suspicious, file, data and citations *)
(* are the locals of the running loader; call, extracted and ret are the   *)
(* last call on the constructed checker, check_text's local citations and  *)
(* the value returned.                                                     *)
(***************************************************************************)
VARIABLES pc, verified, suspicious, file, data, citations,
          verified_citations, suspicious_citations, call, extracted, ret

vars == <<pc, verified, suspicious, file, data, citations,
          verified_citations, suspicious_citations, call, extracted, ret>>

NoFile == MissingFile("none")

NoCall == [op |-> "none", arg |-> <<>>]

NoReturn == [op |-> "none"]

Init ==
    /\ pc = "corrections"
    /\ verified = {}
    /\ suspicious = EmptyDict
    /\ file = NoFile
    /\ data = MissingJson
    /\ citations = {}
    /\ verified_citations = {}
    /\ suspicious_citations = EmptyDict
    /\ call = NoCall
    /\ extracted = <<>>
    /\ ret = NoReturn

\* for filepath in correction_files: verified.update(self._extract_citations_from_file(filepath))
LoadCorrectionFile ==
    /\ pc = "corrections"
    /\ \E f \in TrustedFiles("correction") :
         /\ file' = f
         /\ citations' = ExtractCitationsFromFile(f)
         /\ verified' = verified \cup citations'
    /\ UNCHANGED <<pc, suspicious, data, verified_citations, suspicious_citations,
                   call, extracted, ret>>

\* if bib_file.exists(): verified.update(self._extract_citations_from_file(bib_file))
LoadBibliography ==
    /\ pc = "corrections"
    /\ \E f \in TrustedFiles("bibliography") \cup {MissingFile("bibliography")} :
         /\ file' = f
         /\ citations' = IF f.exists THEN ExtractCitationsFromFile(f) ELSE {}
         /\ verified' = verified \cup citations'
    /\ pc' = "reviews"
    /\ UNCHANGED <<suspicious, data, verified_citations, suspicious_citations,
                   call, extracted, ret>>

\* for filepath in pdf_reviews: verified.update(self._extract_verified_from_review(filepath))
LoadReviewFile ==
    /\ pc = "reviews"
    /\ \E f \in ReviewFiles :
         /\ file' = f
         /\ citations' = ExtractVerifiedFromReview(f)
         /\ verified' = verified \cup citations'
    /\ UNCHANGED <<pc, suspicious, data, verified_citations, suspicious_citations,
                   call, extracted, ret>>

\* for filepath in consensus_files: verified.update(self._extract_citations_from_file(filepath))
LoadConsensusFile ==
    /\ pc \in {"reviews", "consensus"}
    /\ \E f \in TrustedFiles("consensus") :
         /\ file' = f
         /\ citations' = ExtractCitationsFromFile(f)
         /\ verified' = verified \cup citations'
    /\ pc' = "consensus"
    /\ UNCHANGED <<suspicious, data, verified_citations, suspicious_citations,
                   call, extracted, ret>>

\* return verified; self.verified_citations = ...
ReturnVerified ==
    /\ pc \in {"reviews", "consensus"}
    /\ verified_citations' = verified
    /\ verified' = {}
    /\ file' = NoFile
    /\ citations' = {}
    /\ pc' = "suspicious_json"
    /\ UNCHANGED <<suspicious, data, suspicious_citations, call, extracted, ret>>

\* Source 1: JSON suspicious list
LoadSuspiciousList ==
    /\ pc = "suspicious_json"
    /\ \E jf \in JsonFiles :
         /\ data' = jf
         /\ suspicious' = LoadSuspiciousJson(EmptyDict, jf)
    /\ pc' = "suspicious_fabricated"
    /\ UNCHANGED <<verified, file, citations, verified_citations, suspicious_citations,
                   call, extracted, ret>>

\* Source 2: commonly hallucinated citations
LoadFabricatedList ==
    /\ pc = "suspicious_fabricated"
    /\ \E f \in FabricatedFiles :
         /\ file' = f
         /\ suspicious' = LoadSuspiciousFabricated(suspicious, f)
    /\ pc' = "suspicious_return"
    /\ UNCHANGED <<verified, data, citations, verified_citations, suspicious_citations,
                   call, extracted, ret>>

\* return suspicious; self.suspicious_citations = ...
ReturnSuspicious ==
    /\ pc = "suspicious_return"
    /\ suspicious_citations' = suspicious
    /\ suspicious' = EmptyDict
    /\ file' = NoFile
    /\ data' = MissingJson
    /\ pc' = "ready"
    /\ UNCHANGED <<verified, citations, verified_citations, call, extracted, ret>>

\* checker.check_text(text)
CheckText ==
    /\ pc = "ready"
    /\ \E text \in Texts :
         /\ call' = [op |-> "check_text", arg |-> text]
         /\ extracted' = extract_citations(text)
         /\ ret' = check_text(extracted', verified_citations, suspicious_citations)
    /\ pc' = "done"
    /\ UNCHANGED <<verified, suspicious, file, data, citations,
                   verified_citations, suspicious_citations>>

\* checker.verify_citation(citation)
VerifyCitation ==
    /\ pc = "ready"
    /\ \E citation \in ProbeKeys :
         /\ call' = [op |-> "verify_citation", arg |-> citation]
         /\ ret' = verify_citation(citation, verified_citations, suspicious_citations)
    /\ extracted' = <<>>
    /\ pc' = "done"
    /\ UNCHANGED <<verified, suspicious, file, data, citations,
                   verified_citations, suspicious_citations>>

Next ==
    \/ LoadCorrectionFile
    \/ LoadBibliography
    \/ LoadReviewFile
    \/ LoadConsensusFile
    \/ ReturnVerified
    \/ LoadSuspiciousList
    \/ LoadFabricatedList
    \/ ReturnSuspicious
    \/ CheckText
    \/ VerifyCitation

Spec == Init /\ [][Next]_vars

(***************************************************************************)
(* Properties.                                                             *)
(***************************************************************************)
Checked == call.op = "check_text"

\* the number of results of the report whose status is in S
NumStatus(S) == Cardinality({ i \in DOMAIN ret.results : ret.results[i].status \in S })

\* the matched substring of match m of the checked text
MatchText(m) == SubSeq(call.arg, m.start, m.end - 1)

\* the et-al flag of match m: its text holds "et al" in some letter case
MatchFlag(m) ==
    \E i \in 1..Len(MatchText(m)) :
        OccursAt(<<"e","t"," ","a","l">>, Lower(MatchText(m)), i)

\* the key the (author, year, et-al-flag) tuple of match m stands for
MatchKey(m) ==
    IF MatchFlag(m) THEN EtAlKey(AuthorOf(m), YearOf(m))
    ELSE PlainKey(AuthorOf(m), YearOf(m))

\* the two keys of every author and year of the model
KeyPairs == { <<EtAlKey(a, y), PlainKey(a, y)>> : a \in Authors, y \in Years }

\* C1: verify_citation(k) returns the status of the 2x2 table over (k in VerifiedSet,
\* k in SuspiciousMap), membership being equality of strings; a key in both is
\* VERIFIED BUT FLAGGED, never VERIFIED or SUSPICIOUS alone.
C1_StatusTable ==
    call.op = "verify_citation" =>
        LET inV == call.arg \in verified_citations
            inS == call.arg \in DOMAIN suspicious_citations
        IN  /\ ret.citation = call.arg
            /\ ret.verified = inV
            /\ ret.suspicious = inS
            /\ ret.status = CASE inV /\ ~inS  -> "VERIFIED"
                              [] inV /\ inS   -> "VERIFIED BUT FLAGGED"
                              [] ~inV /\ inS  -> "SUSPICIOUS"
                              [] ~inV /\ ~inS -> "UNVERIFIED"
            /\ (inV /\ inS => ret.status \notin {"VERIFIED", "SUSPICIOUS"})

C1_Witness ==
    /\ call.op = "verify_citation"
    /\ call.arg \in verified_citations
    /\ call.arg \in DOMAIN suspicious_citations
    /\ ret.status = "VERIFIED BUT FLAGGED"

\* C2: the verified set holds "A et al. (Y)" exactly when it holds "A (Y)", so a
\* checked citation whose author and year a trusted source gave in either form is
\* VERIFIED when it is not in the suspicious map.
C2_BothFormsRegistered ==
    /\ \A V \in {verified, verified_citations} :
         /\ \A k \in V : \E kp \in KeyPairs : k \in {kp[1], kp[2]}
         /\ \A kp \in KeyPairs : kp[1] \in V <=> kp[2] \in V
    /\ Checked =>
         \A i \in DOMAIN ret.results :
            LET r == ret.results[i]
            IN  (/\ \/ EtAlKey(r.author, r.year) \in verified_citations
                    \/ PlainKey(r.author, r.year) \in verified_citations
                 /\ r.citation \notin DOMAIN suspicious_citations)
                => r.status = "VERIFIED"

\* the only trusted mention of Smith is "Smith et al. (2024)"; the text says "Smith (2024)"
C2_Witness ==
    /\ Checked
    /\ call.arg = FragBare
    /\ ret.results[1].citation = PlainKey(Smith, Y2024)
    /\ ret.results[1].status = "VERIFIED"

\* C3: a source that cannot be read or parsed contributes nothing, also when the
\* malformed entry of the suspicious list comes after well-formed ones, and the other
\* sources contribute what they would without it.
C3_FailingSourceSkipped ==
    /\ (file.tier \in {"correction", "bibliography", "review", "consensus"} /\ ~file.readable)
           => citations = {}
    /\ pc = "suspicious_return" =>
         LET items == IF data.exists /\ data.parses
                      THEN Get(data.data, "high", <<>>) \o Get(data.data, "medium", <<>>)
                      ELSE <<>>
             listFails == /\ data.exists
                          /\ \/ ~data.parses
                             \/ \E k \in DOMAIN items : items[k].type # "object"
             fabricatedFails == file.exists /\ ~file.readable
         IN  /\ listFails => suspicious = LoadSuspiciousFabricated(EmptyDict, file)
             /\ fabricatedFails => suspicious = LoadSuspiciousJson(EmptyDict, data)

\* C4: the text of the test "Multiple citation formats", with "Smith (2024)",
\* "Jones et al. (2023)" and "(Wilson & Chen, 2022)", checked against an empty
\* knowledge base, has citations_found = 3.
C4_ThreeFormatsFound ==
    (/\ Checked
     /\ call.arg = TextMultipleFormats
     /\ verified_citations = {}
     /\ DOMAIN suspicious_citations = {})
    => ret.citations_found = 3

\* C5: the records extract_citations returns have pairwise distinct keys, are as many
\* as the distinct (author, year, et-al-flag) tuples among the raw matches, come in
\* the order in which their tuples are first matched, and carry the text of that
\* first match.
C5_DedupFirstSeen ==
    Checked =>
        LET ms == AllMatches(call.arg)
            keys == [k \in DOMAIN ms |-> MatchKey(ms[k])]
            tuples == { <<AuthorOf(ms[k]), YearOf(ms[k]), MatchFlag(ms[k])>> : k \in DOMAIN ms }
            FirstOf(key) == CHOOSE k \in DOMAIN ms :
                               /\ keys[k] = key
                               /\ \A j \in 1..(k - 1) : keys[j] # key
            first == [i \in DOMAIN extracted |->
                        IF \E k \in DOMAIN ms : keys[k] = extracted[i].normalized
                        THEN FirstOf(extracted[i].normalized) ELSE 0]
        IN  /\ \A i, j \in DOMAIN extracted :
                  i # j => extracted[i].normalized # extracted[j].normalized
            /\ Len(extracted) = Cardinality(tuples)
            /\ Len(extracted) <= Len(ms)
            /\ \A i \in DOMAIN extracted :
                  /\ first[i] # 0
                  /\ extracted[i].text = MatchText(ms[first[i]])
                  /\ extracted[i].author = AuthorOf(ms[first[i]])
                  /\ extracted[i].year = YearOf(ms[first[i]])
            /\ \A i, j \in DOMAIN extracted : i < j => first[i] < first[j]

\* a later match of a key already seen was dropped, and two records remain
C5_Witness ==
    /\ Checked
    /\ Len(extracted) >= 2
    /\ Len(AllMatches(call.arg)) > Len(extracted)

\* the records of author a and year y
EntriesOf(a, y) ==
    { i \in DOMAIN extracted : extracted[i].author = a /\ extracted[i].year = y }

\* the authors and years the checked text has both as "(A et al., Y)", matched by
\* the fourth pattern, and as "A (Y)", matched by the third
InBothForms ==
    LET m4 == FindIter(citation_patterns[4], 2, call.arg)
        m3 == FindIter(citation_patterns[3], 2, call.arg)
    IN  { <<AuthorOf(m4[k]), YearOf(m4[k])>> :
            k \in { k \in DOMAIN m4 :
                      /\ MatchText(m4[k])
                            = <<"(">> \o AuthorOf(m4[k])
                                \o <<" ","e","t"," ","a","l",".",","," ">>
                                \o YearOf(m4[k]) \o <<")">>
                      /\ \E j \in DOMAIN m3 :
                            MatchText(m3[j]) = PlainKey(AuthorOf(m4[k]), YearOf(m4[k])) } }

C7_CountsExceedByFlagged ==
    Checked =>
        /\ ret.citations_found = Len(ret.results)
        /\ ret.verified + ret.suspicious + ret.unverified - ret.citations_found
               = NumStatus({"VERIFIED BUT FLAGGED"})
        /\ ret.verified = NumStatus({"VERIFIED", "VERIFIED BUT FLAGGED"})
        /\ ret.suspicious = NumStatus({"SUSPICIOUS", "VERIFIED BUT FLAGGED"})
        /\ ret.unverified = NumStatus({"UNVERIFIED"})
        /\ \A i \in DOMAIN ret.results :
               ret.results[i].status = "VERIFIED BUT FLAGGED"
                   <=> (ret.results[i].verified /\ ret.results[i].suspicious)

C7_Witness ==
    /\ Checked
    /\ NumStatus({"VERIFIED BUT FLAGGED"}) >= 1
    /\ NumStatus({"UNVERIFIED"}) >= 1
    /\ ret.verified + ret.suspicious + ret.unverified > ret.citations_found

\* C8: all_verified is true exactly when unverified = 0 and suspicious = 0, that is
\* when every result is VERIFIED; a text no pattern matches has no citation, zero
\* counts and all_verified true.
C8_AllClear ==
    Checked =>
        /\ ret.all_verified <=> (ret.unverified = 0 /\ ret.suspicious = 0)
        /\ ret.all_verified <=> (\A i \in DOMAIN ret.results : ret.results[i].status = "VERIFIED")
        /\ (\/ ret.citations_found # 0
            \/ ret.verified # 0
            \/ ret.suspicious # 0
            \/ ret.unverified # 0
            \/ ~ret.all_verified)
           => \E p \in DOMAIN citation_patterns, i \in DOMAIN call.arg :
                  MatchAt(citation_patterns[p], 2, call.arg, i).ok

C8_Witness ==
    /\ Checked
    /\ ret.citations_found >= 1
    /\ ret.all_verified

\* C9: a review file contributes to the verified set only when it holds the approval
\* glyph and "verified" in some letter case; with both it contributes both forms of
\* every citation matched in it.
C9_ReviewFailClosed ==
    file.tier = "review" =>
        LET glyph == \E i \in DOMAIN file.content : file.content[i] = CheckGlyph
            word  == \E i \in DOMAIN file.content :
                        OccursAt(<<"v","e","r","i","f","i","e","d">>, Lower(file.content), i)
            ms    == AllMatches(file.content)
        IN  /\ citations # {} => (file.readable /\ glyph /\ word)
            /\ (file.readable /\ glyph /\ word) =>
                  \A k \in DOMAIN ms :
                     {EtAlKey(AuthorOf(ms[k]), YearOf(ms[k])),
                      PlainKey(AuthorOf(ms[k]), YearOf(ms[k]))}
                         \subseteq (citations \cap verified)

\* an accepted review that says "verified" in lower case
C9_Witness ==
    /\ file.tier = "review"
    /\ file.content = ReviewAcceptedMixedCase
    /\ {EtAlKey(Lee, Y2021), PlainKey(Lee, Y2021)} \subseteq verified

\* C10: after the build the reason stored for an author-year key is the fabrication
\* reason if the fabrication list mentions the key's author and year, otherwise the
\* reason of the last entry of high followed by medium whose line mentions them
\* ("Unknown reason" when that entry has none); both forms carry the same reason.
C10_LastWriteWins ==
    pc = "suspicious_return" =>
        LET items == IF data.exists /\ data.parses
                     THEN Get(data.data, "high", <<>>) \o Get(data.data, "medium", <<>>)
                     ELSE <<>>
            fabricated == IF file.exists /\ file.readable THEN file.content ELSE <<>>
            Mentions(text, a, y) ==
                \E k \in DOMAIN AllMatches(text) :
                    /\ AuthorOf(AllMatches(text)[k]) = a
                    /\ YearOf(AllMatches(text)[k]) = y
            Entries(a, y) ==
                { k \in DOMAIN items :
                    /\ items[k].type = "object"
                    /\ Mentions(Get(items[k].val, "line", <<>>), a, y) }
            Last(S) == CHOOSE k \in S : \A j \in S : j <= k
        IN  \A a \in Authors, y \in Years :
                /\ EtAlKey(a, y) \in DOMAIN suspicious <=> PlainKey(a, y) \in DOMAIN suspicious
                /\ \A key \in {EtAlKey(a, y), PlainKey(a, y)} \cap DOMAIN suspicious :
                      IF Mentions(fabricated, a, y)
                      THEN suspicious[key] = FabricatedReason
                      ELSE /\ Entries(a, y) # {}
                           /\ suspicious[key]
                                = Get(items[Last(Entries(a, y))].val, "reason", UnknownReason)

====
